---- MODULE Spec2Model ----
(***************************************************************************)
(* A model of app/main.py of the clothing-store demo: the customers,       *)
(* products, orders and order_items tables, the JWT session gate, and the  *)
(* HTTP handlers that read and write them.  Every connection is opened     *)
(* with autocommit=True (get_conn), so every SQL statement is a step of    *)
(* its own; place_order, which issues four statements, is a process with   *)
(* one step per statement.  The other handlers issue one statement after   *)
(* their dependencies and are one step each.  The first_name and           *)
(* last_name columns play no part in any handler's control flow and are    *)
(* left out of the rows.                                                   *)
(***************************************************************************)
EXTENDS Integers, Sequences, FiniteSets, TLC

(* ------------------------------ bounds --------------------------------- *)
\* concurrent place_order requests
NumProcs == 2
\* customers.customer_id values the serial column may hand out
MaxCustomerId == 4
\* bearer tokens the clients hold
MaxTokens == 2
\* salts bcrypt.gensalt() draws from
NumSalts == 1
\* minutes the clock advances in one step, and the last minute modelled
TickStep == 60
MaxClock == 120

(* ------------------------- program constants --------------------------- *)
ACCESS_TOKEN_EXPIRE_MINUTES == 60
SECRET_KEY == "JWT_SECRET"

(* ------------------------------ inputs --------------------------------- *)
ProcIds == 1..NumProcs
Salts == 1..NumSalts
Passwords == {"p", "q"}
\* the passwords POST /users is sent
RegisterPasswords == {"p"}
\* emails a client may send to POST /users; "" is a str like any other
RegisterEmails == {"", "a"}
LoginNames == {"", "a", "admin", "legacy"}
\* the quantities and product ids a request body may carry
Quantities == {-1, 0, 1, 2}
RequestedProductIds == {1, 2, 3}
\* the JSON bodies of POST /orders: a dict, either key may be absent
Bodies ==
    [product_id : RequestedProductIds, quantity : Quantities]
        \cup {[product_id |-> 1], [quantity |-> 1]}

(* --------------------------- password hashing --------------------------- *)
\* bcrypt.hashpw(password, salt): the salt in clear and a digest of both
Bcrypt(password, salt) == [salt |-> salt, digest |-> <<salt, password>>]

hash_password(password, salt) == Bcrypt(password, salt)

\* a customers row whose password column is NULL
NoHash == [salt |-> 0, digest |-> <<>>]

verify_password(plain, hashed) ==
    IF hashed = NoHash THEN FALSE
    ELSE Bcrypt(plain, hashed.salt) = hashed

(* ------------------------------ the tables ------------------------------ *)
\* the products table as seeded: two products share a name
Catalog ==
    (1 :> [name |-> "shirt", price |-> 10, stock |-> 1]) @@
    (2 :> [name |-> "shirt", price |-> 20, stock |-> 1])

\* the customers the database is seeded with: an admin, and a row whose
\* role column is NULL
SeedCustomers ==
    { [customer_id |-> 1, email |-> "admin", password |-> Bcrypt("p", 1), role |-> "admin"],
      [customer_id |-> 2, email |-> "legacy", password |-> Bcrypt("p", 1), role |-> "NULL"] }

SeedIds == {c.customer_id : c \in SeedCustomers}

VARIABLES
    customers,      \* rows of the customers table
    nextCustomerId, \* the customer_id sequence
    products,       \* product_id -> row of the products table
    orders,         \* rows of the orders table
    order_items,    \* rows of the order_items table
    nextOrderId,    \* the order_id sequence
    issued,         \* tokens login has returned, each with the customer_id of the row that logged in
    now,            \* datetime.utcnow(), in minutes
    proc,           \* the place_order requests in flight
    resp            \* the response of the last single-step handler

vars == <<customers, nextCustomerId, products, orders, order_items, nextOrderId,
          issued, now, proc, resp>>

db == <<customers, nextCustomerId, products, orders, order_items, nextOrderId>>

(* ------------------------------- tokens --------------------------------- *)
create_access_token(sub) ==
    [sub |-> sub, exp |-> now + ACCESS_TOKEN_EXPIRE_MINUTES, sig |-> SECRET_KEY]

\* jwt.decode: the signature verifies under SECRET_KEY and exp has not passed
JwtDecodes(token) == token.sig = SECRET_KEY /\ ~(token.exp < now)

\* a token signed with another key
ForgedTokens == {[sub |-> "admin", exp |-> MaxClock + ACCESS_TOKEN_EXPIRE_MINUTES, sig |-> "other"]}

\* what a client can put in the Authorization header
Tokens == {i.token : i \in issued} \cup ForgedTokens

\* get_current_user: the set holding the row fetchone() returns, empty when
\* the dependency raises 401
get_current_user(token) ==
    IF ~JwtDecodes(token) THEN {}
    ELSE IF token.sub = "" THEN {}
    ELSE {c \in customers : c.email = token.sub}

\* the role check refusing only the rows whose role is 'customer'
check_admin_raises_OnlyCustomer(user) == user.role = "customer"

\* check_admin on a resolved row: TRUE when it raises 403
check_admin_raises(user) == user.role # "admin"

Unauthorized == [status |-> 401, detail |-> "Invalid session"]
Forbidden == [status |-> 403, detail |-> "Admin permissions required"]

IdleProc == [pc |-> "idle", data |-> [product_id |-> 0], customer_id |-> 0,
             price |-> 0, order_id |-> 0, status |-> 0]

Init ==
    /\ customers = SeedCustomers
    /\ nextCustomerId = Cardinality(SeedCustomers) + 1
    /\ products = Catalog
    /\ orders = {}
    /\ order_items = {}
    /\ nextOrderId = 1
    /\ issued = {}
    /\ now = 0
    /\ proc = [p \in ProcIds |-> IdleProc]
    /\ resp = [status |-> 0]

(* --------------------------- 1. auth endpoints -------------------------- *)
\* POST /users
register_user(email, password, salt) ==
    /\ nextCustomerId <= MaxCustomerId
    /\ IF \E c \in customers : c.email = email
       THEN /\ resp' = [status |-> 400, detail |-> "Registration failed"]
            /\ UNCHANGED <<customers, nextCustomerId>>
       ELSE /\ customers' = customers \cup
                  {[customer_id |-> nextCustomerId, email |-> email,
                    password |-> hash_password(password, salt), role |-> "customer"]}
            /\ nextCustomerId' = nextCustomerId + 1
            /\ resp' = [status |-> 201, id |-> nextCustomerId]
    /\ UNCHANGED <<products, orders, order_items, nextOrderId, issued, now, proc>>

\* login telling an unknown email from a wrong password
LoginResponse_Enumerating(username, password) ==
    LET rows == {c \in customers : c.email = username}
    IN  IF rows = {}
        THEN [status |-> 401, detail |-> "Unknown email"]
        ELSE IF ~verify_password(password, (CHOOSE c \in rows : TRUE).password)
        THEN [status |-> 401, detail |-> "Incorrect email or password"]
        ELSE [status |-> 200, token_type |-> "bearer",
              access_token |-> create_access_token((CHOOSE c \in rows : TRUE).email)]

\* the body of login: what it answers for a username and password
LoginResponse(username, password) ==
    LET rows == {c \in customers : c.email = username}
    IN  IF rows = {} \/ ~verify_password(password, (CHOOSE c \in rows : TRUE).password)
        THEN [status |-> 401, detail |-> "Incorrect email or password"]
        ELSE [status |-> 200, token_type |-> "bearer",
              access_token |-> create_access_token((CHOOSE c \in rows : TRUE).email)]

\* POST /users/login
login(username, password) ==
    /\ resp' = LoginResponse(username, password)
    /\ IF resp'.status = 200
       THEN LET who == CHOOSE c \in customers : c.email = username
                grant == [token |-> resp'.access_token, cid |-> who.customer_id]
            IN  /\ \/ grant.token \in {i.token : i \in issued}
                   \/ Cardinality({i.token : i \in issued}) < MaxTokens
                /\ issued' = issued \cup {grant}
       ELSE UNCHANGED issued
    /\ UNCHANGED <<db, now, proc>>

(* --------------------------- 3. order endpoints ------------------------- *)
\* POST /orders, the dependency: get_current_user resolves the bearer token
\* before the body of place_order runs
StartOrder(p, token, data) ==
    /\ proc[p].pc = "idle"
    /\ LET user == get_current_user(token)
       IN  IF user = {}
           THEN proc' = [proc EXCEPT ![p] = [IdleProc EXCEPT !.pc = "done", !.data = data,
                                                             !.status = 401]]
           ELSE proc' = [proc EXCEPT ![p] = [IdleProc EXCEPT !.pc = "check", !.data = data,
                              !.customer_id = (CHOOSE c \in user : TRUE).customer_id]]
    /\ UNCHANGED <<db, issued, now, resp>>

\* data.get(key) is None
Missing(data, key) == key \notin DOMAIN data

\* SELECT name, price, stock FROM products WHERE product_id = %s
SelectProduct(data) ==
    IF Missing(data, "product_id") THEN {}
    ELSE {i \in DOMAIN products : i = data.product_id}

\* the check with the comparison off by one
InsufficientStock_OffByOne(found, quantity) ==
    found = {} \/ \E i \in found : products[i].stock + 1 < quantity

\* not product or product["stock"] < quantity
InsufficientStock(found, quantity) ==
    found = {} \/ \E i \in found : products[i].stock < quantity

\* the SELECT and the check that follows it
CheckStock(p) ==
    /\ proc[p].pc = "check"
    /\ LET data == proc[p].data
           found == SelectProduct(data)
       IN  IF found # {} /\ Missing(data, "quantity")
           THEN \* int < None raises TypeError: an unhandled exception
                proc' = [proc EXCEPT ![p].pc = "done", ![p].status = 500]
           ELSE IF InsufficientStock(found, IF Missing(data, "quantity") THEN 0 ELSE data.quantity)
           THEN proc' = [proc EXCEPT ![p].pc = "done", ![p].status = 400]
           ELSE proc' = [proc EXCEPT ![p].pc = "insert_order",
                                     ![p].price = products[data.product_id].price]
    /\ UNCHANGED <<db, issued, now, resp>>

\* INSERT INTO orders (customer_id) VALUES (%s) RETURNING order_id
InsertOrder(p) ==
    /\ proc[p].pc = "insert_order"
    /\ orders' = orders \cup {[order_id |-> nextOrderId, customer_id |-> proc[p].customer_id]}
    /\ nextOrderId' = nextOrderId + 1
    /\ proc' = [proc EXCEPT ![p].pc = "insert_item", ![p].order_id = nextOrderId]
    /\ UNCHANGED <<customers, nextCustomerId, products, order_items, issued, now, resp>>

\* INSERT INTO order_items (order_id, product_id, quantity) VALUES (%s, %s, %s)
InsertItem(p) ==
    /\ proc[p].pc = "insert_item"
    /\ order_items' = order_items \cup
           {[order_id |-> proc[p].order_id, product_id |-> proc[p].data.product_id,
             quantity |-> proc[p].data.quantity]}
    /\ proc' = [proc EXCEPT ![p].pc = "update_stock"]
    /\ UNCHANGED <<customers, nextCustomerId, products, orders, nextOrderId, issued, now, resp>>

\* UPDATE products SET stock = stock - %s WHERE product_id = %s, and the receipt
UpdateStock(p) ==
    /\ proc[p].pc = "update_stock"
    /\ LET data == proc[p].data
       IN  products' = [products EXCEPT ![data.product_id].stock = @ - data.quantity]
    /\ proc' = [proc EXCEPT ![p].pc = "done", ![p].status = 201]
    /\ UNCHANGED <<customers, nextCustomerId, orders, order_items, nextOrderId, issued, now, resp>>

\* the receipt of a request that answered 201
Receipt(p) ==
    [order_id |-> proc[p].order_id,
     product_name |-> products[proc[p].data.product_id].name,
     total_price |-> proc[p].price * proc[p].data.quantity,
     message |-> "Order placed successfully"]

\* a statement of the with-block raises (the connection drops): the handler
\* ends with an unhandled exception, and with autocommit=True the statements
\* that ran before it stay committed
PersistenceFailure(p) ==
    /\ proc[p].pc \in {"check", "insert_order", "insert_item", "update_stock"}
    /\ proc' = [proc EXCEPT ![p].pc = "done", ![p].status = 500]
    /\ UNCHANGED <<db, issued, now, resp>>

\* GET /orders
get_my_orders(token) ==
    /\ LET user == get_current_user(token)
       IN  IF user = {}
           THEN resp' = Unauthorized
           ELSE LET cid == (CHOOSE c \in user : TRUE).customer_id
                IN  resp' = [status |-> 200,
                             rows |-> {[order_id |-> o.order_id, product_id |-> oi.product_id,
                                        quantity |-> oi.quantity] :
                                       <<o, oi>> \in {x \in orders \X order_items :
                                            x[1].order_id = x[2].order_id /\ x[1].customer_id = cid}}]
    /\ UNCHANGED <<db, issued, now, proc>>

(* --------------------- 4. statistics & admin endpoints ------------------ *)
\* what the admin dependencies answer before the body runs: 401, 403, or
\* status 0 when the body is let through
AdminGate(token) ==
    LET user == get_current_user(token)
    IN  IF user = {} THEN Unauthorized
        ELSE IF check_admin_raises(CHOOSE c \in user : TRUE) THEN Forbidden
        ELSE [status |-> 0]

\* DELETE /users/{id}; main.py states no foreign keys, and the DELETE succeeds
\* whether or not the customer has orders or exists
delete_user(token, id) ==
    /\ IF AdminGate(token).status # 0
       THEN /\ resp' = AdminGate(token)
            /\ UNCHANGED customers
       ELSE /\ customers' = {c \in customers : c.customer_id # id}
            /\ resp' = [status |-> 200, id |-> id]
    /\ UNCHANGED <<nextCustomerId, products, orders, order_items, nextOrderId, issued, now, proc>>

\* SUM(oi.quantity) over a set of order_items rows
RECURSIVE SumQuantity(_)
SumQuantity(items) ==
    IF items = {} THEN 0
    ELSE LET oi == CHOOSE x \in items : TRUE
         IN  oi.quantity + SumQuantity(items \ {oi})

\* SUM(oi.quantity * p.price) over a set of order_items rows, at today's price
RECURSIVE SumTurnover(_)
SumTurnover(items) ==
    IF items = {} THEN 0
    ELSE LET oi == CHOOSE x \in items : TRUE
         IN  oi.quantity * products[oi.product_id].price + SumTurnover(items \ {oi})

\* order_items oi JOIN products p ON oi.product_id = p.product_id
ItemsJoinProducts == {oi \in order_items : oi.product_id \in DOMAIN products}

\* the key get_product_stats groups by: GROUP BY p.name
ProductGroupKey(oi) == products[oi.product_id].name

\* the rows of the product report, one per group
ProductStatsRows ==
    { LET group == {oi \in ItemsJoinProducts : ProductGroupKey(oi) = k}
      IN  [name |-> products[(CHOOSE oi \in group : TRUE).product_id].name,
           total_units_sold |-> SumQuantity(group),
           turnover |-> SumTurnover(group)] :
      k \in {ProductGroupKey(oi) : oi \in ItemsJoinProducts} }

\* the orders a report's ORDER BY <column> DESC may return the rows in
OrderByDesc(rows, column) ==
    IF rows = {} THEN {<<>>}
    ELSE {s \in [1..Cardinality(rows) -> rows] :
            /\ \A i, j \in DOMAIN s : i # j => s[i] # s[j]
            /\ \A i, j \in DOMAIN s : i < j => s[i][column] >= s[j][column]}

\* GET /statistics/products
get_product_stats(token) ==
    /\ IF AdminGate(token).status # 0
       THEN resp' = AdminGate(token)
       ELSE \E body \in OrderByDesc(ProductStatsRows, "turnover") :
                resp' = [status |-> 200, body |-> body]
    /\ UNCHANGED <<db, issued, now, proc>>

\* orders o JOIN order_items oi JOIN products p, for one customer
CustomerItems(cid) ==
    {oi \in ItemsJoinProducts :
        \E o \in orders : o.order_id = oi.order_id /\ o.customer_id = cid}

\* the rows of the user report: GROUP BY o.customer_id
UserStatsRows ==
    { [customer_id |-> cid,
       total_orders |-> Cardinality({oi.order_id : oi \in CustomerItems(cid)}),
       money_spent |-> SumTurnover(CustomerItems(cid))] :
      cid \in {o.customer_id : o \in {x \in orders : \E oi \in ItemsJoinProducts :
                                                        oi.order_id = x.order_id}} }

\* GET /statistics/users
get_user_stats(token) ==
    /\ IF AdminGate(token).status # 0
       THEN resp' = AdminGate(token)
       ELSE \E body \in OrderByDesc(UserStatsRows, "money_spent") :
                resp' = [status |-> 200, body |-> body]
    /\ UNCHANGED <<db, issued, now, proc>>

Tick ==
    /\ now + TickStep <= MaxClock
    /\ now' = now + TickStep
    /\ UNCHANGED <<db, issued, proc, resp>>

\* sessions and roles: every handler, with one place_order request in flight
\* (persistence failures and concurrent orders are the matter of SpecOrders)
Next ==
    \/ \E e \in RegisterEmails, pw \in RegisterPasswords, s \in Salts : register_user(e, pw, s)
    \/ \E u \in LoginNames, pw \in Passwords : login(u, pw)
    \/ \E t \in Tokens, id \in 1..MaxCustomerId : delete_user(t, id)
    \/ \E t \in Tokens : get_my_orders(t)
    \/ \E t \in Tokens : get_product_stats(t)
    \/ \E t \in Tokens : get_user_stats(t)
    \/ \E t \in Tokens : StartOrder(1, t, [product_id |-> 1, quantity |-> 1])
    \/ CheckStock(1)
    \/ InsertOrder(1)
    \/ InsertItem(1)
    \/ UpdateStock(1)
    \/ Tick

Spec == Init /\ [][Next]_vars

\* the order workflow under concurrency: the seeded customers log in, and
\* NumProcs place_order requests with any body run interleaved
NextOrders ==
    \/ \E u \in {"admin", "legacy"} : login(u, "p")
    \/ \E p \in ProcIds, t \in Tokens, data \in Bodies : StartOrder(p, t, data)
    \/ \E p \in ProcIds : CheckStock(p)
    \/ \E p \in ProcIds : InsertOrder(p)
    \/ \E p \in ProcIds : InsertItem(p)
    \/ \E p \in ProcIds : UpdateStock(p)
    \/ \E p \in ProcIds : PersistenceFailure(p)
    \/ \E t \in Tokens : get_my_orders(t)
    \/ \E t \in Tokens : get_product_stats(t)
    \/ \E t \in Tokens : get_user_stats(t)

SpecOrders == Init /\ [][NextOrders]_vars

\* the stock check on its own: a seeded customer logs in and NumProcs
\* place_order requests with any body run interleaved, every statement
\* succeeding
NextPlace ==
    \/ login("legacy", "p")
    \/ \E p \in ProcIds, t \in Tokens, data \in Bodies : StartOrder(p, t, data)
    \/ \E p \in ProcIds : CheckStock(p)
    \/ \E p \in ProcIds : InsertOrder(p)
    \/ \E p \in ProcIds : InsertItem(p)
    \/ \E p \in ProcIds : UpdateStock(p)

SpecPlace == Init /\ [][NextPlace]_vars

\* accounts and the admin gate on their own: no order is placed
NextAuth ==
    \/ \E e \in RegisterEmails, pw \in RegisterPasswords, s \in Salts : register_user(e, pw, s)
    \/ \E u \in LoginNames, pw \in Passwords : login(u, pw)
    \/ \E t \in Tokens, id \in 1..MaxCustomerId : delete_user(t, id)
    \/ \E t \in Tokens : get_product_stats(t)
    \/ \E t \in Tokens : get_user_stats(t)
    \/ Tick

SpecAuth == Init /\ [][NextAuth]_vars

(* ============================== properties ============================== *)
\* quantity is present and a positive integer, product_id is present
ValidBody(data) ==
    /\ ~Missing(data, "product_id")
    /\ ~Missing(data, "quantity")
    /\ data.quantity > 0

\* the place_order requests that got past get_current_user
Started == {p \in ProcIds : proc[p].pc # "idle" /\ proc[p].customer_id # 0}
Succeeded == {p \in ProcIds : proc[p].pc = "done" /\ proc[p].status = 201}

\* every request so far asks for one unit of product i and none met a
\* persistence failure or a rejected token
AllAskOneOf(i) ==
    \A p \in ProcIds : proc[p].pc # "idle" =>
        /\ proc[p].data = [product_id |-> i, quantity |-> 1]
        /\ proc[p].status \notin {401, 500}

\* C1: when N > s requests for one unit of a product with stock s run
\* interleaved, exactly s succeed, the final stock is 0, and the stock is
\* never negative on the way.
C1_ConcurrentOrdersNeverOversell ==
    \A i \in DOMAIN products :
        AllAskOneOf(i) =>
            /\ products[i].stock >= 0
            /\ ((\A p \in ProcIds : proc[p].pc = "done") /\ NumProcs > Catalog[i].stock
                    => /\ Cardinality(Succeeded) = Catalog[i].stock
                       /\ products[i].stock = 0)

HasOrder(p) == \E o \in orders : o.order_id = proc[p].order_id
HasItem(p) == \E oi \in order_items : oi.order_id = proc[p].order_id

\* C2: place_order is all-or-nothing (stated for requests with a product id
\* and a positive quantity): a finished request has either a 201 with its
\* order and order item in place, or an error and neither; and once no request
\* is in flight every order has its item and every item's quantity has been
\* taken off its product's stock.
C2_OrderIsAllOrNothing ==
    (\A p \in ProcIds : proc[p].pc # "idle" => ValidBody(proc[p].data)) =>
        /\ \A p \in ProcIds : proc[p].pc = "done" =>
               IF proc[p].status = 201
               THEN HasOrder(p) /\ HasItem(p)
               ELSE proc[p].order_id = 0
        /\ (\A p \in ProcIds : proc[p].pc \in {"idle", "done"}) =>
               /\ \A o \in orders : \E oi \in order_items : oi.order_id = o.order_id
               /\ \A i \in DOMAIN products :
                      products[i].stock =
                          Catalog[i].stock - SumQuantity({oi \in order_items : oi.product_id = i})

\* the request at its stock check names no product of the catalog, or asks
\* for more than the product has now
AsksTooMuch(p) ==
    LET data == proc[p].data
    IN  /\ ~Missing(data, "quantity")
        /\ \/ Missing(data, "product_id")
           \/ data.product_id \notin DOMAIN products
           \/ data.quantity > products[data.product_id].stock

\* C3: a place_order for a product that does not exist, or for more than the
\* product's current stock, ends at the stock check with the 400, having
\* created no order, and leaves products, orders and order_items unchanged.
C3_RejectedOrderChangesNothing ==
    [][\A p \in ProcIds :
          (CheckStock(p) /\ AsksTooMuch(p)) =>
              /\ proc'[p].pc = "done"
              /\ proc'[p].status = 400
              /\ proc'[p].order_id = 0
              /\ UNCHANGED <<products, orders, order_items>>]_vars

C3_Witness ==
    \E p, q \in ProcIds :
        /\ proc[p].pc = "done" /\ proc[p].status = 400
        /\ proc[p].data = [product_id |-> 3, quantity |-> 1]
        /\ proc[q].pc = "done" /\ proc[q].status = 400
        /\ proc[q].data = [product_id |-> 1, quantity |-> 2]
        /\ products = Catalog /\ orders = {} /\ order_items = {}

\* C4: a request whose quantity is missing, zero or negative, or whose
\* product_id is missing, never gets past validation: it creates no order and
\* no order item, and no product's stock ever rises above what it was.
C4_ValidatesBeforeTouchingStore ==
    /\ \A p \in Started : ~ValidBody(proc[p].data) =>
           /\ proc[p].pc \in {"check", "done"}
           /\ proc[p].order_id = 0
    /\ \A i \in DOMAIN products : products[i].stock <= Catalog[i].stock

\* the step is a request to one of the admin-gated routes with this token
AdminRouteStep(token) ==
    \/ get_product_stats(token)
    \/ get_user_stats(token)
    \/ \E id \in 1..MaxCustomerId : delete_user(token, id)

\* C5: on the admin-gated routes a valid token whose customer is not an admin
\* (a NULL role included) gets 403 and no customer is deleted; a valid token
\* of an admin never gets 403; and every customer made by POST /users has
\* role 'customer'.
C5_AdminGate ==
    [][/\ \A c \in customers' : c.customer_id \notin SeedIds => c.role = "customer"
       /\ \A t \in Tokens : \A user \in get_current_user(t) :
              AdminRouteStep(t) =>
                  IF user.role = "admin"
                  THEN resp'.status # 403
                  ELSE resp' = Forbidden /\ customers' = customers]_vars

C5_Witness ==
    /\ resp = Forbidden
    /\ \E i, j \in issued :
          /\ \E c \in get_current_user(i.token) : c.role = "NULL"
          /\ \E c \in get_current_user(j.token) :
                 c.role = "customer" /\ c.customer_id \notin SeedIds

\* C6: a token is accepted only if it is signed with the key, not past its
\* expiry, and its subject is the email of a customer that exists now; and a
\* token issued to a customer that has since been deleted is rejected.
C6_ResolveRejectsDeletedCustomers ==
    /\ \A t \in Tokens : get_current_user(t) # {} =>
           /\ t.sig = SECRET_KEY
           /\ now <= t.exp
           /\ \E c \in customers : c.email = t.sub
    /\ \A i \in issued :
           (\A c \in customers : c.customer_id # i.cid) => get_current_user(i.token) = {}

\* the plaintext a stored hash was made from
PasswordOf(c) == c.password.digest[2]

\* C7: registering with an unused email answers 201, and logging in with the
\* email and password of a registered customer answers 200 with a token that
\* resolves to the customer with that email.
C7_RegisterThenLoginResolves ==
    [][/\ \A e \in RegisterEmails, pw \in RegisterPasswords, s \in Salts :
              (register_user(e, pw, s) /\ \A c \in customers : c.email # e)
                  => resp'.status = 201
       /\ \A u \in LoginNames, pw \in Passwords :
              (login(u, pw) /\ \E c \in customers :
                                   /\ c.email = u /\ c.customer_id \notin SeedIds
                                   /\ PasswordOf(c) = pw)
                  => /\ resp'.status = 200
                     /\ \E c \in get_current_user(resp'.access_token) : c.email = u]_vars

\* C8: a login with the email of a customer and a wrong password gets exactly
\* what a login with an email no customer has gets: the 401 'Incorrect email
\* or password', no token, and no change of state.
C8_LoginIndistinguishable ==
    [][\A u \in LoginNames, pw \in Passwords :
          (login(u, pw) /\ \A c \in customers : c.email = u => PasswordOf(c) # pw) =>
              /\ resp' = [status |-> 401, detail |-> "Incorrect email or password"]
              /\ UNCHANGED <<db, issued>>]_vars

C8_Witness ==
    /\ resp = [status |-> 401, detail |-> "Incorrect email or password"]
    /\ \E c \in customers : c.email = "a" /\ PasswordOf(c) = "p"
    /\ \A c \in customers : c.email # ""

\* the products that have at least one order item
ProductsSold == {oi.product_id : oi \in ItemsJoinProducts}

\* the row the report owes a product
ProductRow(i) ==
    LET items == {oi \in ItemsJoinProducts : oi.product_id = i}
    IN  [name |-> products[i].name,
         total_units_sold |-> SumQuantity(items),
         turnover |-> SumTurnover(items)]

\* C9: the product report has exactly one row for every product with at least
\* one order item, with its units sold and its revenue at the current price,
\* the rows sorted by revenue descending (stated for order items of positive
\* quantity).
C9_ProductStatsOneRowPerProduct ==
    [][\A t \in Tokens :
          (/\ get_product_stats(t)
           /\ resp'.status = 200
           /\ \A oi \in order_items : oi.quantity > 0) =>
              /\ Len(resp'.body) = Cardinality(ProductsSold)
              /\ ProductsSold # {} =>
                     \E f \in [DOMAIN resp'.body -> ProductsSold] :
                         /\ \A k, l \in DOMAIN f : k # l => f[k] # f[l]
                         /\ \A k \in DOMAIN f : resp'.body[k] = ProductRow(f[k])
              /\ \A k, l \in DOMAIN resp'.body :
                     k < l => resp'.body[k].turnover >= resp'.body[l].turnover]_vars

\* C10: a token only ever resolves to the customer record that logged in to
\* obtain it.
C10_TokenResolvesToItsOwner ==
    \A i \in issued : \A c \in get_current_user(i.token) :
        c.customer_id \in {j.cid : j \in {k \in issued : k.token = i.token}}
====
